---- MODULE Spec2Model ----
(***************************************************************************)
(* DataGPT: natural-language-to-SQL pipeline.                              *)
(*   src/app.py      Streamlit application (session state, chat turns)     *)
(*   src/chatbot.py  command-line variant (main loop)                      *)
(* A text is a sequence of one-character strings.                          *)
(***************************************************************************)
EXTENDS Integers, Sequences, FiniteSets, TLC

VARIABLES
    \* --- sanitizer harness (clean_sql_query applied as a pure function) ---
    raw,            \* text handed to clean_sql_query
    fence,          \* "none", or the fence the statement stmt was wrapped in
    stmt,           \* the text raw was built from
    cleaned,        \* <<>> or <<clean_sql_query(raw)>>
    recleaned,      \* <<>> or <<clean_sql_query(clean_sql_query(raw))>>
    \* --- programs ---
    program,        \* "none" | "app" | "cli"
    pc,             \* position of the running script / loop
    db_ready,       \* st.session_state.db_ready
    table_name,     \* st.session_state.table_name
    table_info,     \* st.session_state.table_info
    history,        \* st.session_state.history
    uploaded_file,  \* value of the file_uploader widget: <<>> or <<file>>
    user_input,     \* user_input (app) / question (cli)
    sql_query,      \* local sql_query: <<>> unbound, <<text>> bound
    cleaned_sql,    \* local cleaned_sql: <<>> unbound, <<text>> bound
    result_df,      \* local result_df: <<>> unbound, <<rows>> bound
    log,            \* calls made to the collaborators in the current turn
    lastLoad,       \* the dataset of the most recent successful load
    asked,          \* questions the turn handler accepted, in order
    failed          \* TRUE once the current turn raised

vars == <<raw, fence, stmt, cleaned, recleaned, program, pc, db_ready,
          table_name, table_info, history, uploaded_file, user_input,
          sql_query, cleaned_sql, result_df, log, lastLoad, asked, failed>>

harnessVars == <<raw, fence, stmt, cleaned, recleaned>>
programVars == <<program, pc, db_ready, table_name, table_info, history,
                 uploaded_file, user_input, sql_query, cleaned_sql,
                 result_df, log, lastLoad, asked, failed>>

(***************************************************************************)
(* Bounds                                                                  *)
(***************************************************************************)
MaxFrags == 4
MaxTurns == 2

(***************************************************************************)
(* Characters and texts                                                    *)
(***************************************************************************)
\* str.strip() / regex \s: the whitespace characters of the alphabet
Whitespace == {" ", "\t", "\n", "\r"}
\* str.splitlines(): the line boundaries of the alphabet
LineBreaks == {"\n", "\r"}
\* the backtick character (a TLA+ string literal cannot hold it)
Backtick == "backtick"
\* the argument of sql_query.strip(...): backtick, both quotes, space, newline
StripSet == {Backtick, "'", "\"", " ", "\n"}

BackFence == <<Backtick, Backtick, Backtick>>
QuoteFence == <<"'", "'", "'">>
FenceMarkers == {BackFence, QuoteFence}
SqlTag == <<"s", "q", "l">>
Keywords == { <<"s","e","l","e","c","t">>, <<"u","p","d","a","t","e">>,
              <<"d","e","l","e","t","e">>, <<"i","n","s","e","r","t">>,
              <<"w","i","t","h">> }

Min(S) == CHOOSE x \in S : \A y \in S : x <= y
Max(S) == CHOOSE x \in S : \A y \in S : x >= y

\* str.lower() on one character
LowerChar(c) ==
    CASE c = "A" -> "a" [] c = "C" -> "c" [] c = "D" -> "d" [] c = "E" -> "e"
      [] c = "H" -> "h" [] c = "I" -> "i" [] c = "L" -> "l" [] c = "N" -> "n"
      [] c = "P" -> "p" [] c = "Q" -> "q" [] c = "R" -> "r" [] c = "S" -> "s"
      [] c = "T" -> "t" [] c = "U" -> "u" [] c = "W" -> "w" [] c = "X" -> "x"
      [] OTHER -> c

Lower(s) == [i \in 1..Len(s) |-> LowerChar(s[i])]

\* str.startswith(p)
StartsWith(s, p) == Len(s) >= Len(p) /\ SubSeq(s, 1, Len(p)) = p
\* str.endswith(p)
EndsWith(s, p) == Len(s) >= Len(p) /\ SubSeq(s, Len(s) - Len(p) + 1, Len(s)) = p

\* str.strip(chars): drop the characters of chars from both ends
StripChars(s, chars) ==
    LET keep == {i \in 1..Len(s) : s[i] \notin chars}
    IN  IF keep = {} THEN <<>> ELSE SubSeq(s, Min(keep), Max(keep))

\* str.strip()
Strip(s) == StripChars(s, Whitespace)

\* index of the first character at or after i that is not whitespace (regex \s*)
SkipWs(s, i) == Min({j \in i..Len(s) : s[j] \notin Whitespace} \cup {Len(s) + 1})

\* str.splitlines(): the pieces between line boundaries (no trailing empty piece)
RECURSIVE SplitFrom(_, _, _)
SplitFrom(s, i, cur) ==
    IF i > Len(s) THEN (IF cur = <<>> THEN <<>> ELSE <<cur>>)
    ELSE IF s[i] \in LineBreaks
         THEN IF s[i] = "\r" /\ i < Len(s) /\ s[i + 1] = "\n"
              THEN <<cur>> \o SplitFrom(s, i + 2, <<>>)
              ELSE <<cur>> \o SplitFrom(s, i + 1, <<>>)
         ELSE SplitFrom(s, i + 1, Append(cur, s[i]))

SplitLines(s) == SplitFrom(s, 1, <<>>)

(***************************************************************************)
(* clean_sql_query                                                         *)
(***************************************************************************)
\* re.sub of ^(FENCE)?\s*sql\s* by "", IGNORECASE, where FENCE is a triple
\* backtick or a triple single quote
StripLeadingFence(s) ==
    LET afterFence == IF \E f \in FenceMarkers : StartsWith(s, f) THEN 4 ELSE 1
        tagAt == SkipWs(s, afterFence)
        hasTag == tagAt + 2 <= Len(s) /\ Lower(SubSeq(s, tagAt, tagAt + 2)) = SqlTag
    IN  IF hasTag THEN SubSeq(s, SkipWs(s, tagAt + 3), Len(s)) ELSE s

\* re.sub of (FENCE)$ by "": $ matches at the end and before a final newline
StripTrailingFence(s) ==
    IF \E f \in FenceMarkers : EndsWith(s, f)
    THEN SubSeq(s, 1, Len(s) - 3)
    ELSE IF \E f \in FenceMarkers : EndsWith(s, f \o <<"\n">>)
         THEN SubSeq(s, 1, Len(s) - 4) \o <<"\n">>
         ELSE s

\* sql_query.strip(...) with the characters of StripSet
StripQuotes(s) == StripChars(s, StripSet)

\* [line.strip() for line in sql_query.splitlines() if line.strip()]
NonEmptyLines(s) ==
    LET parts == SplitLines(s)
        stripped == [i \in 1..Len(parts) |-> Strip(parts[i])]
    IN  SelectSeq(stripped, LAMBDA l : l # <<>>)

\* line.lower().startswith(('select', 'update', 'delete', 'insert', 'with'))
IsKeywordLine(line) == \E k \in Keywords : StartsWith(Lower(line), k)

\* a loop that looks at the first line only
ScanLines_FirstOnly(lines, i) ==
    IF lines # <<>> /\ IsKeywordLine(lines[1]) THEN <<lines[1]>> ELSE <<>>

\* for line in lines: if ...: return line   (<<>> when the loop falls through)
RECURSIVE ScanLines(_, _)
ScanLines(lines, i) ==
    IF i > Len(lines) THEN <<>>
    ELSE IF IsKeywordLine(lines[i]) THEN <<lines[i]>>
         ELSE ScanLines(lines, i + 1)

\* return lines[0] if lines else sql_query
Fallback(lines, s) == IF lines # <<>> THEN lines[1] ELSE s

\* a sanitizer without the line selection
clean_sql_query_NoScan(sql) ==
    StripQuotes(StripTrailingFence(StripLeadingFence(sql)))

clean_sql_query(sql) ==
    LET s1 == StripLeadingFence(sql)
        s2 == StripTrailingFence(s1)
        s3 == StripQuotes(s2)
        lines == NonEmptyLines(s3)
        hit == ScanLines(lines, 1)
    IN  IF hit # <<>> THEN hit[1] ELSE Fallback(lines, s3)

(***************************************************************************)
(* Sanitizer harness: clean_sql_query applied to bounded texts             *)
(***************************************************************************)
\* pieces the texts are built from
Fragments == { BackFence, QuoteFence, <<"S","q","l">>, <<"\n">>, <<" ">>,
               <<"\t">>, <<"'">>, <<"W","i","t","h">>, <<"x">>, <<"\r">> }

RECURSIVE Concat(_)
Concat(parts) == IF parts = <<>> THEN <<>> ELSE Head(parts) \o Concat(Tail(parts))

\* every text made of at most MaxFrags fragments
Texts == { Concat(parts) : parts \in UNION { [1..n -> Fragments] : n \in 0..MaxFrags } }

\* a single-line statement that begins with a statement keyword and has no
\* leading or trailing whitespace
IsBareStatement(s) ==
    /\ s # <<>>
    /\ IsKeywordLine(s)
    /\ \A i \in 1..Len(s) : s[i] \notin LineBreaks
    /\ s[1] \notin Whitespace /\ s[Len(s)] \notin Whitespace

\* the statement inside a markdown fence with the sql tag
Wrap(f, s) == f \o SqlTag \o <<"\n">> \o s \o <<"\n">> \o f

HarnessIdle ==
    /\ program = "none" /\ pc = "off" /\ db_ready = FALSE /\ table_name = <<>>
    /\ table_info = <<>> /\ history = <<>> /\ uploaded_file = <<>>
    /\ user_input = <<>> /\ sql_query = <<>> /\ cleaned_sql = <<>>
    /\ result_df = <<>> /\ log = <<>> /\ lastLoad = <<>> /\ asked = <<>>
    /\ failed = FALSE

InitClean ==
    /\ \/ fence = "none" /\ stmt \in Texts /\ raw = stmt
       \/ /\ stmt \in {t \in Texts : IsBareStatement(t)}
          /\ \E f \in FenceMarkers : fence = f[1] /\ raw = Wrap(f, stmt)
    /\ cleaned = <<>> /\ recleaned = <<>>
    /\ HarnessIdle

\* cleaned_sql = clean_sql_query(sql_query)
Sanitize ==
    /\ cleaned = <<>>
    /\ cleaned' = <<clean_sql_query(raw)>>
    /\ UNCHANGED <<raw, fence, stmt, recleaned>>
    /\ UNCHANGED programVars

\* the sanitizer applied to its own output
SanitizeAgain ==
    /\ cleaned # <<>> /\ recleaned = <<>>
    /\ recleaned' = <<clean_sql_query(cleaned[1])>>
    /\ UNCHANGED <<raw, fence, stmt, cleaned>>
    /\ UNCHANGED programVars

NextClean == Sanitize \/ SanitizeAgain

SpecClean == InitClean /\ [][NextClean]_vars

(***************************************************************************)
(* The Streamlit application (src/app.py)                                  *)
(***************************************************************************)
DEFAULT_COLUMNS == << "order_id", "customer_id", "customer_name", "product_id",
                      "product_name", "category", "quantity", "price_per_unit",
                      "total_amount", "order_date", "city", "country" >>

\* 'N/A'
NA == <<"N", "/", "A">>
\* "No results found."
NoResults == <<"N","o"," ","r","e","s","u","l","t","s"," ","f","o","u","n","d",".">>
OrdersName == <<"o","r","d","e","r","s">>
EmployeesName == <<"e","m","p","l","o","y","e","e","s">>

\* ", ".join(f"{col} (str)" for col in DEFAULT_COLUMNS): one (column, label)
\* pair per column, in column order
DescribeDefault(cols) == [i \in 1..Len(cols) |-> <<cols[i], "str">>]

\* ", ".join(f"{col} ({dtype})" for col, dtype in df.dtypes.items())
Describe(cols, dtypes) == [i \in 1..Len(cols) |-> <<cols[i], dtypes[i]>>]

LastIndexOf(s, c) == Max({i \in 1..Len(s) : s[i] = c} \cup {0})

\* os.path.splitext(p)[0]
SplitextRoot(p) ==
    LET sep == LastIndexOf(p, "/")
        dot == LastIndexOf(p, ".")
    IN  IF dot > sep /\ \E j \in (sep + 1)..(dot - 1) : p[j] # "."
        THEN SubSeq(p, 1, dot - 1)
        ELSE p

\* str.replace(" ", "_")
ReplaceSpaces(s) == [i \in 1..Len(s) |-> IF s[i] = " " THEN "_" ELSE s[i]]

\* os.path.splitext(uploaded_file.name)[0].replace(" ", "_")
TableNameOf(name) == ReplaceSpaces(SplitextRoot(name))

\* the files the user uploads: two datasets under one file name, with
\* different columns
FileName == <<"m","y"," ","t",".","c","s","v">>
Files == { [name |-> FileName, columns |-> <<"a", "b">>, dtypes |-> <<"int64", "object">>],
           [name |-> FileName, columns |-> <<"b", "c">>, dtypes |-> <<"float64", "object">>] }

\* what the user may type as the k-th question: nothing, or a text that
\* differs from the earlier questions
Questions(k) == { <<>>, [i \in 1..k |-> "q"] }

\* texts the generation capability returns for the query prompt
RawTexts == { \* a fenced answer, a comment line before the statement
              BackFence \o SqlTag \o <<"\n","-","-","\n","W","i","t","h"," ","x","\n">> \o BackFence \o <<"\n">>,
              \* plain prose
              <<"n","o"," ","s","q","l">>,
              \* a fence around blank lines
              BackFence \o <<"\t","\n","\t">> \o BackFence }

\* texts the generation capability returns for the summary prompt
AnswerTexts == { <<" ","o","k","\n">> }

\* rows the store returns
ResultSets == { <<>>, << <<5>> >> }

Stages == <<"synthesize", "sanitize", "execute", "summarize">>

\* response.text.strip() of generate_sql_query
generate_sql_query(response) == Strip(response)

\* a summary without the test for an empty result
generate_friendly_answer_NoEmptyCheck(rows, response) ==
    [called |-> TRUE, text |-> Strip(response)]

\* generate_friendly_answer: whether generate_content is called, and the text
\* returned when the call (if any) succeeds
generate_friendly_answer(rows, response) ==
    IF rows = <<>>
    THEN [called |-> FALSE, text |-> NoResults]
    ELSE [called |-> TRUE, text |-> Strip(response)]

\* the entry of the success path
SuccessEntry(q, sql, rows, answer) ==
    [question |-> q, sql |-> sql, result_df |-> rows, friendly_answer |-> answer]

\* an except branch that never reports the query
ExceptEntry_NoQuery(q, cleanedLocal, e) ==
    [question |-> q, sql |-> NA, error |-> e]

\* the entry of the except branch: cleaned_sql if 'cleaned_sql' in locals()
\* else 'N/A'
ExceptEntry(q, cleanedLocal, e) ==
    [question |-> q,
     sql |-> IF cleanedLocal # <<>> THEN cleanedLocal[1] ELSE NA,
     error |-> e]

\* an assignment in place of the append
AppendEntry_Overwrite(h, e) == <<e>>

\* st.session_state.history.append(entry)
AppendEntry(h, e) == Append(h, e)

\* an upload block that sets table_name before the load and leaves db_ready
\* alone when the load fails
LoadUpload_Partial(session, f, ok) ==
    IF ok
    THEN [table_name |-> TableNameOf(f.name),
          table_info |-> Describe(f.columns, f.dtypes),
          db_ready |-> TRUE]
    ELSE [session EXCEPT !.table_name = TableNameOf(f.name)]

\* the upload block: the session's table_name, table_info and db_ready after
\* the try/except around the load of file f
LoadUpload(session, f, ok) ==
    IF ok
    THEN [table_name |-> TableNameOf(f.name),
          table_info |-> Describe(f.columns, f.dtypes),
          db_ready |-> TRUE]
    ELSE [session EXCEPT !.db_ready = FALSE]

\* the stage that follows a stage that returned
NextStage(stage) ==
    CASE stage = "synthesize" -> "sanitize"
      [] stage = "sanitize" -> "execute"
      [] stage = "execute" -> "summarize"
      [] OTHER -> "idle"

\* an except branch that runs the failed stage again
AfterFailure_Retry(stage) == stage

\* where control goes when a stage raised: the except branch ends the turn
AfterFailure(stage) == "idle"

LogEntry(stage, arg, out, ok, gen) ==
    [stage |-> stage, arg |-> arg, out |-> out, ok |-> ok, gen |-> gen]

HarnessOff ==
    /\ raw = <<>> /\ fence = "none" /\ stmt = <<>>
    /\ cleaned = <<>> /\ recleaned = <<>>

\* the session after the first script run: no file uploaded, default table
InitApp ==
    /\ program = "app" /\ pc = "idle"
    /\ db_ready = TRUE
    /\ table_name = OrdersName
    /\ table_info = DescribeDefault(DEFAULT_COLUMNS)
    /\ history = <<>>
    /\ uploaded_file = <<>>
    /\ user_input = <<>> /\ sql_query = <<>> /\ cleaned_sql = <<>>
    /\ result_df = <<>> /\ log = <<>> /\ asked = <<>> /\ failed = FALSE
    /\ lastLoad = [name |-> OrdersName, columns |-> DEFAULT_COLUMNS,
                   labels |-> [i \in 1..Len(DEFAULT_COLUMNS) |-> "str"]]

\* one script run up to the turn handler: the upload block, the db_ready gate,
\* the form.  Every run starts with fresh locals.
RunScript ==
    /\ program = "app" /\ pc = "idle"
    /\ \E file \in {<<>>} \cup {<<f>> : f \in Files}, submitted \in BOOLEAN :
       \E ok \in (IF file = <<>> THEN {TRUE} ELSE BOOLEAN),
          input \in (IF submitted THEN Questions(Len(asked) + 1) ELSE {<<>>}) :
        LET before == [table_name |-> table_name, table_info |-> table_info,
                       db_ready |-> db_ready]
            after == IF file = <<>> THEN before ELSE LoadUpload(before, file[1], ok)
            turn == after.db_ready /\ submitted /\ input # <<>>
        IN  /\ turn => Len(asked) < MaxTurns
            /\ uploaded_file' = file
            /\ table_name' = after.table_name
            /\ table_info' = after.table_info
            /\ db_ready' = after.db_ready
            /\ lastLoad' = IF file # <<>> /\ ok
                           THEN [name |-> TableNameOf(file[1].name),
                                 columns |-> file[1].columns,
                                 labels |-> file[1].dtypes]
                           ELSE lastLoad
            /\ user_input' = IF after.db_ready THEN input ELSE <<>>
            /\ asked' = IF turn THEN Append(asked, input) ELSE asked
            /\ pc' = IF turn THEN "synthesize" ELSE "idle"
    /\ sql_query' = <<>> /\ cleaned_sql' = <<>> /\ result_df' = <<>>
    /\ log' = <<>> /\ failed' = FALSE
    /\ UNCHANGED <<history, program>>
    /\ UNCHANGED harnessVars

\* the except branch of the turn handler
Except(stage, arg, e, gen) ==
    /\ history' = AppendEntry(history, ExceptEntry(user_input, cleaned_sql, e))
    /\ log' = Append(log, LogEntry(stage, arg, <<>>, FALSE, gen))
    /\ failed' = TRUE
    /\ pc' = AfterFailure(stage)

\* sql_query = generate_sql_query(model, user_input, table_name, table_info)
TurnSynthesize ==
    /\ program = "app" /\ pc = "synthesize"
    /\ \/ \E response \in RawTexts :
            /\ sql_query' = <<generate_sql_query(response)>>
            /\ log' = Append(log, LogEntry("synthesize", <<table_name, table_info>>,
                                           generate_sql_query(response), TRUE, TRUE))
            /\ pc' = NextStage("synthesize")
            /\ UNCHANGED <<history, failed>>
       \/ /\ Except("synthesize", <<table_name, table_info>>, "GenerationError", TRUE)
          /\ UNCHANGED sql_query
    /\ UNCHANGED <<db_ready, table_name, table_info, uploaded_file, user_input,
                   cleaned_sql, result_df, lastLoad, asked, program>>
    /\ UNCHANGED harnessVars

\* cleaned_sql = clean_sql_query(sql_query)
TurnSanitize ==
    /\ program = "app" /\ pc = "sanitize"
    /\ cleaned_sql' = <<clean_sql_query(sql_query[1])>>
    /\ log' = Append(log, LogEntry("sanitize", sql_query[1],
                                   clean_sql_query(sql_query[1]), TRUE, FALSE))
    /\ pc' = NextStage("sanitize")
    /\ UNCHANGED <<db_ready, table_name, table_info, uploaded_file, user_input,
                   sql_query, result_df, lastLoad, asked, program, history, failed>>
    /\ UNCHANGED harnessVars

\* connection.execute(text(cleaned_sql)); rows = result.fetchall()
TurnExecute ==
    /\ program = "app" /\ pc = "execute"
    /\ \/ \E rows \in ResultSets :
            /\ result_df' = <<rows>>
            /\ log' = Append(log, LogEntry("execute", cleaned_sql[1], rows, TRUE, FALSE))
            /\ pc' = NextStage("execute")
            /\ UNCHANGED <<history, failed>>
       \/ /\ Except("execute", cleaned_sql[1], "OperationalError", FALSE)
          /\ UNCHANGED result_df
    /\ UNCHANGED <<db_ready, table_name, table_info, uploaded_file, user_input,
                   sql_query, cleaned_sql, lastLoad, asked, program>>
    /\ UNCHANGED harnessVars

\* friendly_answer = generate_friendly_answer(model, user_input, result_df)
\* and the append of the success entry
TurnSummarize ==
    /\ program = "app" /\ pc = "summarize"
    /\ \E response \in AnswerTexts, raised \in BOOLEAN :
        LET r == generate_friendly_answer(result_df[1], response)
        IN  IF r.called /\ raised
            THEN Except("summarize", result_df[1], "SummaryError", TRUE)
            ELSE /\ history' = AppendEntry(history,
                        SuccessEntry(user_input, cleaned_sql[1], result_df[1], r.text))
                 /\ log' = Append(log, LogEntry("summarize", result_df[1], r.text,
                                                TRUE, r.called))
                 /\ pc' = NextStage("summarize")
                 /\ UNCHANGED failed
    /\ UNCHANGED <<db_ready, table_name, table_info, uploaded_file, user_input,
                   sql_query, cleaned_sql, result_df, lastLoad, asked, program>>
    /\ UNCHANGED harnessVars

(***************************************************************************)
(* The command-line chatbot (src/chatbot.py)                               *)
(***************************************************************************)
\* table_info = "id (integer), name (text), department (text), salary (integer)"
EmployeesInfo == << <<"id", "integer">>, <<"name", "text">>,
                    <<"department", "text">>, <<"salary", "integer">> >>

\* what the user may type at the prompt
CliQuestions(k) == Questions(k) \cup { <<"E","x","i","t">> }

\* question.lower() == 'exit'
IsExit(question) == Lower(question) = <<"e","x","i","t">>

\* the statement that follows a statement of the loop body that returned
CliNextStage(stage) ==
    CASE stage = "synthesize" -> "sanitize"
      [] stage = "sanitize" -> "execute"
      [] OTHER -> "input"

\* the state when main() enters its loop: key set, model found, database set up
InitCli ==
    /\ program = "cli" /\ pc = "input"
    /\ db_ready = TRUE
    /\ table_name = EmployeesName
    /\ table_info = EmployeesInfo
    /\ history = <<>>
    /\ uploaded_file = <<>>
    /\ user_input = <<>> /\ sql_query = <<>> /\ cleaned_sql = <<>>
    /\ result_df = <<>> /\ log = <<>> /\ asked = <<>> /\ failed = FALSE
    /\ lastLoad = [name |-> EmployeesName,
                   columns |-> [i \in 1..Len(EmployeesInfo) |-> EmployeesInfo[i][1]],
                   labels |-> [i \in 1..Len(EmployeesInfo) |-> EmployeesInfo[i][2]]]

\* question = input("> "); if question.lower() == 'exit': break
CliInput ==
    /\ program = "cli" /\ pc = "input"
    /\ \E question \in CliQuestions(Len(asked) + 1) :
        IF IsExit(question)
        THEN /\ pc' = "exited"
             /\ user_input' = question
             /\ UNCHANGED <<asked, log, failed>>
        ELSE /\ Len(asked) < MaxTurns
             /\ pc' = "synthesize"
             /\ user_input' = question
             /\ asked' = Append(asked, question)
             /\ log' = <<>> /\ failed' = FALSE
    /\ UNCHANGED <<db_ready, table_name, table_info, history, uploaded_file,
                   sql_query, cleaned_sql, result_df, lastLoad, program>>
    /\ UNCHANGED harnessVars

\* except Exception as e: print the error, back to the prompt
CliExcept(stage, arg, gen) ==
    /\ log' = Append(log, LogEntry(stage, arg, <<>>, FALSE, gen))
    /\ failed' = TRUE
    /\ pc' = "input"

\* sql_query = generate_sql_query(model, question, table_info)
CliSynthesize ==
    /\ program = "cli" /\ pc = "synthesize"
    /\ \/ \E response \in RawTexts :
            /\ sql_query' = <<generate_sql_query(response)>>
            /\ log' = Append(log, LogEntry("synthesize", <<table_name, table_info>>,
                                           generate_sql_query(response), TRUE, TRUE))
            /\ pc' = CliNextStage("synthesize")
            /\ UNCHANGED failed
       \/ /\ CliExcept("synthesize", <<table_name, table_info>>, TRUE)
          /\ UNCHANGED sql_query
    /\ UNCHANGED <<db_ready, table_name, table_info, history, uploaded_file,
                   user_input, cleaned_sql, result_df, lastLoad, asked, program>>
    /\ UNCHANGED harnessVars

\* cleaned_sql = clean_sql_query(sql_query)
CliSanitize ==
    /\ program = "cli" /\ pc = "sanitize"
    /\ cleaned_sql' = <<clean_sql_query(sql_query[1])>>
    /\ log' = Append(log, LogEntry("sanitize", sql_query[1],
                                   clean_sql_query(sql_query[1]), TRUE, FALSE))
    /\ pc' = CliNextStage("sanitize")
    /\ UNCHANGED <<db_ready, table_name, table_info, history, uploaded_file,
                   user_input, sql_query, result_df, lastLoad, asked, program, failed>>
    /\ UNCHANGED harnessVars

\* connection.execute(text(cleaned_sql)); rows = result.fetchall(); print
CliExecute ==
    /\ program = "cli" /\ pc = "execute"
    /\ \/ \E rows \in ResultSets :
            /\ result_df' = <<rows>>
            /\ log' = Append(log, LogEntry("execute", cleaned_sql[1], rows, TRUE, FALSE))
            /\ pc' = CliNextStage("execute")
            /\ UNCHANGED failed
       \/ /\ CliExcept("execute", cleaned_sql[1], FALSE)
          /\ UNCHANGED result_df
    /\ UNCHANGED <<db_ready, table_name, table_info, history, uploaded_file,
                   user_input, sql_query, cleaned_sql, lastLoad, asked, program>>
    /\ UNCHANGED harnessVars

(***************************************************************************)
(* Specification of the two programs                                       *)
(***************************************************************************)
Init == (InitApp \/ InitCli) /\ HarnessOff

Next ==
    \/ RunScript
    \/ TurnSynthesize
    \/ TurnSanitize
    \/ TurnExecute
    \/ TurnSummarize
    \/ CliInput
    \/ CliSynthesize
    \/ CliSanitize
    \/ CliExecute

Spec == Init /\ [][Next]_vars

(***************************************************************************)
(* Properties                                                              *)
(***************************************************************************)
Last(seq) == seq[Len(seq)]

\* the line begins, whatever the case of its letters, with a statement keyword
StartsWithKeyword(l) ==
    \E k \in Keywords :
        /\ Len(l) >= Len(k)
        /\ \A j \in 1..Len(k) : LowerChar(l[j]) = k[j]

SingleLine(s) == \A i \in 1..Len(s) : s[i] \notin LineBreaks

\* the trimmed non-empty lines left after fence and quote stripping
StrippedText(x) == StripQuotes(StripTrailingFence(StripLeadingFence(x)))
StrippedLines(x) == NonEmptyLines(StrippedText(x))
KeywordLineIndexes(x) ==
    {i \in 1..Len(StrippedLines(x)) : StartsWithKeyword(StrippedLines(x)[i])}

\* C1: the sanitizer is idempotent: sanitizing its own output changes nothing.
C1_Idempotent ==
    recleaned # <<>> => recleaned[1] = cleaned[1]

\* C6: for a single-line statement that begins with a keyword and has no
\* whitespace at its ends, the sanitizer returns exactly the statement, given
\* bare or inside a markdown fence with the sql tag.
C6_RecoversBareStatement ==
    (cleaned # <<>> /\ IsBareStatement(stmt)) => cleaned[1] = stmt

\* C7: the sanitizer returns the first stripped line that starts with a
\* statement keyword, also when other lines come before it; with no such line
\* the first non-empty line; with no non-empty line the stripped text.
C7_LineSelection ==
    cleaned # <<>> =>
        LET lines == StrippedLines(raw)
            kw == KeywordLineIndexes(raw)
        IN  IF kw # {} THEN cleaned[1] = lines[Min(kw)]
            ELSE IF lines # <<>> THEN cleaned[1] = lines[1]
            ELSE cleaned[1] = StrippedText(raw)

\* a keyword line was chosen over an earlier line without keyword
C7_Witness ==
    /\ cleaned # <<>>
    /\ Len(StrippedLines(raw)) >= 2
    /\ ~StartsWithKeyword(StrippedLines(raw)[1])
    /\ StartsWithKeyword(StrippedLines(raw)[2])
    /\ cleaned[1] = StrippedLines(raw)[2]

TurnOver == pc \in {"idle", "input", "exited"}

\* C2: a turn in which only the summary call failed leaves a success entry
\* that carries the sanitized query and the result set, without summary and
\* without error.
C2_SummaryFailureNonFatal ==
    (program = "app" /\ pc = "idle" /\ log # <<>>
        /\ Last(log).stage = "summarize" /\ ~Last(log).ok) =>
        LET e == Last(history)
        IN  /\ "result_df" \in DOMAIN e
            /\ "error" \notin DOMAIN e
            /\ "friendly_answer" \notin DOMAIN e
            /\ e.sql = cleaned_sql[1]
            /\ e.result_df = result_df[1]

\* C3 as stated: every statement handed to the store is non-empty, a single
\* line, and begins with a statement keyword.
C3_ExecutedIsKeywordStatement ==
    \A i \in DOMAIN log :
        log[i].stage = "execute" =>
            /\ log[i].arg # <<>>
            /\ SingleLine(log[i].arg)
            /\ StartsWithKeyword(log[i].arg)

\* C3 amended: every statement handed to the store is what the sanitizer
\* returned for the raw text of the turn; it is non-empty, a single line and
\* begins with a statement keyword whenever a stripped line of the raw text
\* begins with one.
C3_ExecutedIsSanitized ==
    \A i \in DOMAIN log :
        log[i].stage = "execute" =>
            /\ log[i].arg = cleaned_sql[1]
            /\ \E j \in 1..(i - 1) : /\ log[j].stage = "sanitize"
                                    /\ log[j].arg = sql_query[1]
                                    /\ log[j].out = log[i].arg
            /\ KeywordLineIndexes(sql_query[1]) # {} =>
                /\ log[i].arg # <<>>
                /\ SingleLine(log[i].arg)
                /\ StartsWithKeyword(log[i].arg)
                /\ log[i].arg = StrippedLines(sql_query[1])[Min(KeywordLineIndexes(sql_query[1]))]

\* a fenced multi-line answer was reduced to its keyword line and executed
C3_Witness ==
    \E i \in DOMAIN log :
        /\ log[i].stage = "execute"
        /\ StartsWithKeyword(log[i].arg)
        /\ ~SingleLine(sql_query[1])

\* C4: the entry of a failed turn carries the query the sanitizer returned in
\* that turn, and 'N/A' when the turn failed before the sanitizer ran.
C4_FailedTurnKeepsQuery ==
    (program = "app" /\ pc = "idle" /\ failed) =>
        LET e == Last(history)
            san == {i \in DOMAIN log : log[i].stage = "sanitize"}
        IN  /\ "error" \in DOMAIN e
            /\ e.question = user_input
            /\ IF san # {}
               THEN \A i \in san : e.sql = log[i].out
               ELSE e.sql = NA

\* a rejected statement in the first turn, a failed generation in the second
C4_Witness ==
    /\ program = "app" /\ pc = "idle" /\ failed
    /\ Len(history) = 2
    /\ "error" \in DOMAIN history[1] /\ history[1].sql # NA
    /\ history[2].sql = NA

InTurn == pc \in {"synthesize", "sanitize", "execute", "summarize"}

C8_EmptyResultSummary ==
    (program = "app" /\ pc = "idle"
        /\ \E i \in DOMAIN log : log[i].stage = "execute" /\ log[i].ok /\ log[i].out = <<>>) =>
        /\ "error" \notin DOMAIN Last(history)
        /\ Last(history).friendly_answer = NoResults
        /\ {i \in DOMAIN log : log[i].gen} = {1}
        /\ log[1].stage = "synthesize"

C8_Witness ==
    /\ program = "app" /\ pc = "idle" /\ history # <<>>
    /\ "friendly_answer" \in DOMAIN Last(history)
    /\ Last(history).friendly_answer = NoResults
    /\ Last(history).result_df = <<>>

\* C9: the synthesizer receives the table name and the columns, in order and
\* each with its label, of the most recent successful load; no turn runs
\* while db_ready is false.
C9_SchemaOfLastLoad ==
    program = "app" =>
        /\ InTurn => db_ready
        /\ \A i \in DOMAIN log :
            log[i].stage = "synthesize" =>
                /\ log[i].arg[1] = lastLoad.name
                /\ Len(log[i].arg[2]) = Len(lastLoad.columns)
                /\ \A j \in 1..Len(lastLoad.columns) :
                     log[i].arg[2][j] = <<lastLoad.columns[j], lastLoad.labels[j]>>

\* a turn on an uploaded dataset, after a turn already in the history
C9_Witness ==
    /\ program = "app" /\ history # <<>>
    /\ \E i \in DOMAIN log :
        /\ log[i].stage = "synthesize"
        /\ log[i].arg[1] = <<"m","y","_","t">>
        /\ log[i].arg[2] = << <<"b", "float64">>, <<"c", "object">> >>

\* C10: the stages of a turn run in the order synthesize, sanitize, execute,
\* summarize, each at most once; a stage runs only after every earlier stage
\* returned, and after a failure the turn is over.
C10_StageOrder ==
    /\ Len(log) <= Len(Stages)
    /\ \A i \in DOMAIN log :
        /\ log[i].stage = Stages[i]
        /\ i < Len(log) => log[i].ok
    /\ failed => (TurnOver /\ log # <<>> /\ ~Last(log).ok)
    /\ InTurn => (~failed /\ pc = Stages[Len(log) + 1])

\* the store rejected the statement: three stages ran, the summary did not
C10_Witness ==
    /\ program = "app" /\ failed /\ Len(log) = 3
    /\ Last(log).stage = "execute"

====
